---- MODULE Spec2Model ----
(***************************************************************************)
(* State-machine model of the Flask backend in src/app.py: the start-up    *)
(* check of the environment, the login route, the admin_required guard and *)
(* the create / list / update / delete routes over the three tables        *)
(* (inquiries, reviews, newsletters).                                      *)
(*                                                                         *)
(* Time is counted in ticks, TicksPerSecond ticks to a second, because     *)
(* datetime.utcnow() has sub-second resolution while the "exp" claim of a  *)
(* token is a whole number of seconds.  TokenLifetime is the lifetime      *)
(* timedelta(hours=1), scaled down to a few seconds.                       *)
(*                                                                         *)
(* Request inputs are well-typed JSON: text fields are strings, a rating   *)
(* is an integer, any key may be absent, unknown keys may be present.      *)
(***************************************************************************)
EXTENDS Integers, Sequences, FiniteSets, TLC

VARIABLES env, pc, now, issued, inquiries, reviews, newsletters, req, resp

vars == <<env, pc, now, issued, inquiries, reviews, newsletters, req, resp>>

tables == <<inquiries, reviews, newsletters>>

(* ------------------------------ bounds --------------------------------- *)

MaxId == 2
MaxRows == 2
MaxIssued == 1
TicksPerSecond == 2
TokenLifetime == 2

MaxTime == TicksPerSecond * TokenLifetime + 1

MaxExp == (MaxTime \div TicksPerSecond) + TokenLifetime

Ids == 1..MaxId

Vals == {"a", "b"}

(* --------------------------- program constants ------------------------- *)

MinRating == 1
MaxRating == 5

None == "None"

SECRET_KEY == "secret"
OtherKey == "other"

ADMIN_USERNAME == "admin"
ADMIN_PASSWORD == "pw"

required_vars == {"SECRET_KEY", "DATABASE_URL", "ADMIN_PASSWORD"}

EnvVars == required_vars \cup {"ADMIN_USERNAME"}

(* os.getenv(var): the value when the variable is set, None otherwise. *)
getenv(var, value) == IF var \in env THEN value ELSE None

(* ------------------------------ tokens --------------------------------- *)

(* A signed token: the key it was signed with and its payload.  "admin" is *)
(* "true", "false" or "absent"; exp is in whole seconds.                   *)
Token(key, admin, exp) ==
    [kind |-> "jwt", key |-> key, admin |-> admin, username |-> ADMIN_USERNAME, exp |-> exp]

(* A string that is no token at all. *)
Garbage ==
    [kind |-> "garbage", key |-> "none", admin |-> "absent", username |-> "none", exp |-> 0]

(* timegm(exp.utctimetuple()): a datetime becomes whole seconds. *)
NumericDate(t) == t \div TicksPerSecond

(* pyjwt.encode({"admin": True, "username": u, "exp": utcnow() + 1h}, SECRET_KEY) *)
encodeLenient(username, t) ==
    [kind |-> "jwt", key |-> SECRET_KEY, admin |-> "true", username |-> username,
     exp |-> NumericDate(t) + TokenLifetime + 1]

encode(username, t) ==
    [kind |-> "jwt", key |-> SECRET_KEY, admin |-> "true", username |-> username,
     exp |-> NumericDate(t + TokenLifetime * TicksPerSecond)]

(* pyjwt.decode(token, SECRET_KEY, algorithms=["HS256"]): the signature is  *)
(* verified first, then the exp claim (expired when exp <= now).           *)
decode(token, t) ==
    IF token.kind # "jwt" \/ token.key # SECRET_KEY THEN "InvalidTokenError"
    ELSE IF token.exp * TicksPerSecond <= t THEN "ExpiredSignatureError"
    ELSE "ok"

(* ------------------------------ headers -------------------------------- *)

(* The Authorization header: absent (or empty), or a string that split()   *)
(* cuts into nparts parts, the first being scheme and the second token.    *)
NoHeader == [present |-> FALSE, nparts |-> 0, scheme |-> "", token |-> Garbage]

Header(scheme, token) == [present |-> TRUE, nparts |-> 2, scheme |-> scheme, token |-> token]

OnePart == [present |-> TRUE, nparts |-> 1, scheme |-> "Bearer", token |-> Garbage]

ThreeParts ==
    [present |-> TRUE, nparts |-> 3, scheme |-> "Basic", token |-> Token(SECRET_KEY, "false", 0)]

(* str.lower() on the schemes used here. *)
lower(s) ==
    CASE s = "Bearer" -> "bearer"
      [] s = "BEARER" -> "bearer"
      [] s = "Basic" -> "basic"
      [] OTHER -> s

Reply(status, message) == [status |-> status, message |-> message, data |-> <<>>]

Passed == Reply(200, "passed")

(* admin_required: the checks of the decorator, in the order of the code. *)
admin_requiredPrivilegeFirst(auth_header, t) ==
    IF ~auth_header.present THEN Reply(401, "Authorization header is missing")
    ELSE IF auth_header.nparts # 2 THEN Reply(401, "Invalid authorization header format")
    ELSE IF lower(auth_header.scheme) # "bearer" THEN Reply(401, "Invalid authorization scheme")
    ELSE IF auth_header.token.kind = "jwt" /\ auth_header.token.admin # "true"
         THEN Reply(403, "Admin privileges required")
    ELSE IF decode(auth_header.token, t) = "ExpiredSignatureError"
         THEN Reply(401, "Token has expired")
    ELSE IF decode(auth_header.token, t) = "InvalidTokenError"
         THEN Reply(401, "Invalid token")
    ELSE Passed

admin_requiredNoPrivilege(auth_header, t) ==
    IF ~auth_header.present THEN Reply(401, "Authorization header is missing")
    ELSE IF auth_header.nparts # 2 THEN Reply(401, "Invalid authorization header format")
    ELSE IF lower(auth_header.scheme) # "bearer" THEN Reply(401, "Invalid authorization scheme")
    ELSE IF decode(auth_header.token, t) = "ExpiredSignatureError"
         THEN Reply(401, "Token has expired")
    ELSE IF decode(auth_header.token, t) = "InvalidTokenError"
         THEN Reply(401, "Invalid token")
    ELSE Passed

admin_required(auth_header, t) ==
    IF ~auth_header.present THEN Reply(401, "Authorization header is missing")
    ELSE IF auth_header.nparts # 2 THEN Reply(401, "Invalid authorization header format")
    ELSE IF lower(auth_header.scheme) # "bearer" THEN Reply(401, "Invalid authorization scheme")
    ELSE IF decode(auth_header.token, t) = "ExpiredSignatureError"
         THEN Reply(401, "Token has expired")
    ELSE IF decode(auth_header.token, t) = "InvalidTokenError"
         THEN Reply(401, "Invalid token")
    ELSE IF auth_header.token.admin # "true" THEN Reply(403, "Admin privileges required")
    ELSE Passed

(* ------------------------------ storage -------------------------------- *)

EmptyTable == [i \in {} |-> None]

EmptyBody == [k \in {} |-> None]

Rows == Cardinality(DOMAIN inquiries) + Cardinality(DOMAIN reviews)
            + Cardinality(DOMAIN newsletters)

(* dict.get(key): the value, or None when the key is absent. *)
Get(data, key) == IF key \in DOMAIN data THEN data[key] ELSE None

(* The primary key the store gives a new row: any key no row of the table  *)
(* has (whether the key of a deleted row comes back depends on the store). *)
NewId(db) == Ids \ DOMAIN db

Insert(db, row) == (row.id :> row) @@ db

Delete(db, id) == [i \in DOMAIN db \ {id} |-> db[i]]

(* What a handler produces: the response and the table after the request.  *)
Out(status, message, data, table) ==
    [status |-> status, message |-> message, data |-> data, table |-> table]

ReplyOf(r) == [status |-> r.status, message |-> r.message, data |-> r.data]

(* ------------------------------ inquiries ------------------------------ *)

create_inquiry(db, id, data, t) ==
    IF data = EmptyBody THEN Out(400, "No data provided", <<>>, db)
    ELSE IF {"name", "email"} \ DOMAIN data # {}
         THEN Out(400, "Missing required fields", {"name", "email"} \ DOMAIN data, db)
    ELSE Out(201, "Inquiry submitted successfully", <<>>,
             Insert(db, [id |-> id,
                         name |-> Get(data, "name"),
                         email |-> Get(data, "email"),
                         phone |-> Get(data, "phone"),
                         company |-> Get(data, "company"),
                         country |-> Get(data, "country"),
                         job_title |-> Get(data, "job_title"),
                         job_details |-> Get(data, "job_details"),
                         timestamp |-> t]))

(* get_or_404 and the rating abort sit inside "try: ... except Exception", *)
(* and an HTTPException is an Exception: the handler's own 404 or 400 is   *)
(* caught, the session is rolled back and the request ends in abort(500).  *)
delete_inquiry(db, id) ==
    IF id \notin DOMAIN db
    THEN Out(500, "Failed to delete inquiry: 404 Not Found", <<>>, db)
    ELSE Out(200, "Inquiry deleted successfully", id, Delete(db, id))

update_inquiryAssignsTimestamp(db, id, data) ==
    IF data = EmptyBody THEN Out(400, "No data provided", <<>>, db)
    ELSE IF id \notin DOMAIN db
         THEN Out(500, "Failed to update inquiry: 404 Not Found", <<>>, db)
    ELSE LET set(r, k) == IF k \in DOMAIN data THEN [r EXCEPT ![k] = data[k]] ELSE r
             inquiry == set(set(set(set(set(set(set(set(db[id], "name"), "email"), "phone"),
                            "company"), "country"), "job_title"), "job_details"), "timestamp")
         IN Out(200, "OK", inquiry, [db EXCEPT ![id] = inquiry])

update_inquiry(db, id, data) ==
    IF data = EmptyBody THEN Out(400, "No data provided", <<>>, db)
    ELSE IF id \notin DOMAIN db
         THEN Out(500, "Failed to update inquiry: 404 Not Found", <<>>, db)
    ELSE LET set(r, k) == IF k \in DOMAIN data THEN [r EXCEPT ![k] = data[k]] ELSE r
             inquiry == set(set(set(set(set(set(set(db[id], "name"), "email"), "phone"),
                            "company"), "country"), "job_title"), "job_details")
         IN Out(200, "OK", inquiry, [db EXCEPT ![id] = inquiry])

(* ------------------------------- reviews ------------------------------- *)

InRange(rating) == MinRating <= rating /\ rating <= MaxRating

ReviewRequired == {"name", "company", "review", "rating"}

submit_reviewSwapsFields(db, id, data, t) ==
    IF data = EmptyBody \/ ReviewRequired \ DOMAIN data # {}
    THEN Out(400, "Name, company, review, and rating are required", <<>>, db)
    ELSE IF ~InRange(data["rating"])
         THEN Out(400, "Rating must be between 1 and 5", <<>>, db)
    ELSE Out(201, "Review submitted successfully", <<>>,
             Insert(db, [id |-> id,
                         name |-> data["company"],
                         company |-> data["name"],
                         review |-> data["review"],
                         rating |-> data["rating"],
                         timestamp |-> t]))

submit_review(db, id, data, t) ==
    IF data = EmptyBody \/ ReviewRequired \ DOMAIN data # {}
    THEN Out(400, "Name, company, review, and rating are required", <<>>, db)
    ELSE IF ~InRange(data["rating"])
         THEN Out(400, "Rating must be between 1 and 5", <<>>, db)
    ELSE Out(201, "Review submitted successfully", <<>>,
             Insert(db, [id |-> id,
                         name |-> data["name"],
                         company |-> data["company"],
                         review |-> data["review"],
                         rating |-> data["rating"],
                         timestamp |-> t]))

delete_review(db, id) ==
    IF id \notin DOMAIN db
    THEN Out(500, "Failed to delete review: 404 Not Found", <<>>, db)
    ELSE Out(200, "Review deleted successfully", id, Delete(db, id))

(* The fields are assigned on the session's object in the order of the     *)
(* code; the abort for the rating comes after name, company and review     *)
(* were assigned, and db.session.rollback() discards them.                 *)
update_reviewNoRangeCheck(db, id, data) ==
    IF data = EmptyBody THEN Out(400, "No data provided", <<>>, db)
    ELSE IF id \notin DOMAIN db
         THEN Out(500, "Failed to update review: 404 Not Found", <<>>, db)
    ELSE LET set(r, k) == IF k \in DOMAIN data THEN [r EXCEPT ![k] = data[k]] ELSE r
             review == set(set(set(set(db[id], "name"), "company"), "review"), "rating")
         IN Out(200, "OK", review, [db EXCEPT ![id] = review])

update_reviewNoRollback(db, id, data) ==
    IF data = EmptyBody THEN Out(400, "No data provided", <<>>, db)
    ELSE IF id \notin DOMAIN db
         THEN Out(500, "Failed to update review: 404 Not Found", <<>>, db)
    ELSE LET set(r, k) == IF k \in DOMAIN data THEN [r EXCEPT ![k] = data[k]] ELSE r
             assigned == set(set(set(db[id], "name"), "company"), "review")
         IN IF "rating" \in DOMAIN data /\ ~InRange(data["rating"])
            THEN Out(500, "Failed to update review: 400 Bad Request", <<>>,
                     [db EXCEPT ![id] = assigned])
            ELSE LET review == set(assigned, "rating")
                 IN Out(200, "OK", review, [db EXCEPT ![id] = review])

update_review(db, id, data) ==
    IF data = EmptyBody THEN Out(400, "No data provided", <<>>, db)
    ELSE IF id \notin DOMAIN db
         THEN Out(500, "Failed to update review: 404 Not Found", <<>>, db)
    ELSE LET set(r, k) == IF k \in DOMAIN data THEN [r EXCEPT ![k] = data[k]] ELSE r
             assigned == set(set(set(db[id], "name"), "company"), "review")
         IN IF "rating" \in DOMAIN data /\ ~InRange(data["rating"])
            THEN Out(500, "Failed to update review: 400 Bad Request", <<>>, db)
            ELSE LET review == set(assigned, "rating")
                 IN Out(200, "OK", review, [db EXCEPT ![id] = review])

(* ----------------------------- newsletters ----------------------------- *)

create_newsletter(db, id, data, t) ==
    IF data = EmptyBody THEN Out(400, "No data provided", <<>>, db)
    ELSE IF {"name", "email"} \ DOMAIN data # {}
         THEN Out(400, "Missing required fields", {"name", "email"} \ DOMAIN data, db)
    ELSE Out(201, "Newsletter subscription submitted successfully", <<>>,
             Insert(db, [id |-> id,
                         name |-> Get(data, "name"),
                         email |-> Get(data, "email"),
                         timestamp |-> t]))

delete_newsletter(db, id) ==
    IF id \notin DOMAIN db
    THEN Out(500, "Failed to delete newsletter subscription: 404 Not Found", <<>>, db)
    ELSE Out(200, "Newsletter subscription deleted successfully", id, Delete(db, id))

update_newsletter(db, id, data) ==
    IF data = EmptyBody THEN Out(400, "No data provided", <<>>, db)
    ELSE IF id \notin DOMAIN db
         THEN Out(500, "Failed to update newsletter subscription: 404 Not Found", <<>>, db)
    ELSE LET set(r, k) == IF k \in DOMAIN data THEN [r EXCEPT ![k] = data[k]] ELSE r
             newsletter == set(set(db[id], "name"), "email")
         IN Out(200, "OK", newsletter, [db EXCEPT ![id] = newsletter])

(* order_by(timestamp.desc()).all(): the rows, latest first; rows of equal *)
(* timestamp come in an order the store chooses.                           *)
Listings(db) ==
    LET n == Cardinality(DOMAIN db)
        orders == {s \in [1..n -> DOMAIN db] :
                     /\ \A i, j \in 1..n : i # j => s[i] # s[j]
                     /\ \A i, j \in 1..n : i < j => db[s[i]].timestamp >= db[s[j]].timestamp}
    IN {[i \in 1..n |-> db[s[i]]] : s \in orders}

CsvHeader ==
    <<"ID", "Name", "Email", "Phone", "Company", "Country", "Job Title", "Job Details",
      "Timestamp">>

CsvRow(i) ==
    <<i.id, i.name, i.email, i.phone, i.company, i.country, i.job_title, i.job_details,
      i.timestamp>>

(* login: the body, the configured credentials, the token. *)
login(data, t) ==
    IF data = EmptyBody \/ {"username", "password"} \ DOMAIN data # {}
    THEN Reply(400, "Username and password are required")
    ELSE IF \/ data["username"] # getenv("ADMIN_USERNAME", ADMIN_USERNAME)
            \/ data["password"] # getenv("ADMIN_PASSWORD", ADMIN_PASSWORD)
         THEN Reply(401, "Invalid credentials")
    ELSE [status |-> 200, message |-> "OK",
          data |-> [token |-> encode(data["username"], t),
                    expires_at |-> t + TokenLifetime * TicksPerSecond,
                    dashboard_url |-> "/admin"]]

(* ------------------------------- inputs -------------------------------- *)

(* A value no row has as id or timestamp. *)
Foreign == MaxId + MaxTime + 1

Letters == <<"a", "b", "c">>

KeyIndex(k) ==
    CASE k \in {"name", "country"} -> 0
      [] k \in {"email", "company", "job_details"} -> 1
      [] k \in {"phone", "job_title", "review"} -> 2
      [] OTHER -> 0

(* The text sent under key k in the body of variant v: the fields of one   *)
(* body carry different texts.                                             *)
Text(k, v) == Letters[((KeyIndex(k) + (IF v = "a" THEN 0 ELSE 1)) % 3) + 1]

(* A JSON body with the keys K: the texts of variant v, the rating r. *)
Body(K, v, r) ==
    [k \in K |-> IF k = "rating" THEN r
                 ELSE IF k \in {"id", "timestamp"} THEN Foreign
                 ELSE Text(k, v)]

Unsettable == {"id", "timestamp", "extra"}

InquiryOptional == {"phone", "company", "country", "job_title", "job_details"}

CreateInquiryBodies ==
    {EmptyBody}
    \cup {Body(K, v, 0) : v \in Vals,
          K \in {{"name"}, {"email", "phone"}, {"name", "email"},
                 {"name", "email"} \cup InquiryOptional \cup Unsettable}}

UpdateInquiryBodies ==
    {EmptyBody}
    \cup {Body(K, v, 0) : v \in Vals,
          K \in {{"extra"}, {"email"} \cup Unsettable, {"name"} \cup InquiryOptional}}

BoundaryRatings == {MinRating - 1, MinRating, MaxRating, MaxRating + 1}

(* The review routes under every boundary rating. *)
SubmitReviewBodies ==
    {EmptyBody}
    \cup {Body(K, v, r) : v \in Vals, r \in BoundaryRatings,
          K \in {{"name", "company", "review"}, ReviewRequired,
                 ReviewRequired \cup Unsettable}}

UpdateReviewBodies ==
    {EmptyBody}
    \cup {Body(K, v, r) : v \in Vals, r \in BoundaryRatings,
          K \in {{"name"}, {"rating"}, {"name", "rating"},
                 {"company", "review"} \cup Unsettable, ReviewRequired}}

(* The review routes next to the other two tables: one rating in range per *)
(* variant, and one out of range.                                          *)
RatingOf(v) == IF v = "a" THEN MinRating ELSE MaxRating

SubmitReviewFew ==
    {EmptyBody, Body(ReviewRequired, "a", MaxRating + 1)}
    \cup {Body(K, v, RatingOf(v)) : v \in Vals,
          K \in {{"name", "company", "review"}, ReviewRequired \cup Unsettable}}

UpdateReviewFew ==
    {EmptyBody, Body(ReviewRequired, "b", MinRating - 1)}
    \cup {Body(K, v, RatingOf(v)) : v \in Vals,
          K \in {{"name", "rating"}, {"company", "review"} \cup Unsettable}}

CreateNewsletterBodies ==
    {EmptyBody}
    \cup {Body(K, v, 0) : v \in Vals,
          K \in {{"name"}, {"name", "email"}, {"name", "email"} \cup Unsettable}}

UpdateNewsletterBodies ==
    {EmptyBody}
    \cup {Body(K, v, 0) : v \in Vals,
          K \in {{"name"}, {"email"} \cup Unsettable}}

LoginBodies ==
    {EmptyBody, [username |-> ADMIN_USERNAME], [password |-> ADMIN_PASSWORD]}
    \cup [username : {ADMIN_USERNAME, "eve"}, password : {ADMIN_PASSWORD, "guess"}]

(* One body per route, for the runs that are about the guard. *)
ProbeBodies == {EmptyBody, Body({"name"}, "b", 0)}

ProbeCreate == {Body(ReviewRequired \cup {"email"}, "a", MinRating)}

GoodToken == Token(SECRET_KEY, "true", MaxExp)

Tokens ==
    {Garbage, Token(OtherKey, "true", MaxExp), Token(OtherKey, "false", 0)}
    \cup {Token(SECRET_KEY, a, e) : a \in {"true", "false", "absent"}, e \in 0..MaxExp}

AuthHeaders ==
    {NoHeader, OnePart, ThreeParts}
    \cup {Header("Bearer", t) : t \in Tokens}
    \cup {Header(s, Token(SECRET_KEY, a, e)) :
            s \in {"bearer", "BEARER", "Basic"}, a \in {"true", "false"}, e \in {0, MaxExp}}

AdminHeader == {Header("Bearer", GoodToken)}

WriteHeaders == {NoHeader, Header("Bearer", GoodToken)}

GuardHeaders ==
    {NoHeader, ThreeParts, Header("Basic", GoodToken), Header("bearer", GoodToken),
     Header("Bearer", GoodToken), Header("Bearer", Garbage),
     Header("Bearer", Token(OtherKey, "true", MaxExp)),
     Header("Bearer", Token(SECRET_KEY, "true", 0)),
     Header("Bearer", Token(SECRET_KEY, "false", MaxExp)),
     Header("Bearer", Token(SECRET_KEY, "absent", MaxExp))}

(* ------------------------------- actions ------------------------------- *)

NoRequest == [route |-> "none", header |-> NoHeader, id |-> 0, body |-> EmptyBody, time |-> 0]

NoResponse == Reply(0, "none")

Init ==
    /\ env \in SUBSET EnvVars
    /\ pc = "boot"
    /\ now = 0
    /\ issued = {}
    /\ inquiries = EmptyTable
    /\ reviews = EmptyTable
    /\ newsletters = EmptyTable
    /\ req = NoRequest
    /\ resp = NoResponse

(* The module body up to the routes: the check of the environment. *)
Boot ==
    /\ pc = "boot"
    /\ LET missing_vars == {var \in required_vars : var \notin env}
       IN pc' = IF missing_vars # {} THEN "failed" ELSE "idle"
    /\ UNCHANGED <<env, now, issued, tables, req, resp>>

(* The clock advances between requests. *)
Tick ==
    /\ pc = "idle"
    /\ now < MaxTime
    /\ now' = now + 1
    /\ UNCHANGED <<env, pc, issued, tables, req, resp>>

(* The response is sent and the request context is gone. *)
Done ==
    /\ pc = "responded"
    /\ pc' = "idle"
    /\ req' = NoRequest
    /\ resp' = NoResponse
    /\ UNCHANGED <<env, now, issued, tables>>

Serve(route, header, id, data, reply) ==
    /\ pc' = "responded"
    /\ req' = [route |-> route, header |-> header, id |-> id, body |-> data, time |-> now]
    /\ resp' = reply
    /\ UNCHANGED <<env, now>>

Index ==
    /\ pc = "idle"
    /\ Serve("index", NoHeader, 0, EmptyBody,
             Reply(200, "AI Solutions Backend API is running."))
    /\ UNCHANGED <<issued, tables>>

Login(B) ==
    /\ pc = "idle"
    /\ \E data \in B :
         LET r == login(data, now)
             grant == IF r.status = 200 THEN {[t |-> now, token |-> r.data.token]} ELSE {}
         IN /\ Cardinality(issued \cup grant) <= MaxIssued
            /\ issued' = issued \cup grant
            /\ Serve("login", NoHeader, 0, data, r)
    /\ UNCHANGED tables

CreateInquiry(B) ==
    /\ pc = "idle"
    /\ \E data \in B, id \in Ids :
         LET r == create_inquiry(inquiries, id, data, now)
         IN /\ IF r.status = 201 THEN id \in NewId(inquiries) /\ Rows < MaxRows
               ELSE id = MaxId
            /\ inquiries' = r.table
            /\ Serve("create_inquiry", NoHeader, 0, data, ReplyOf(r))
    /\ UNCHANGED <<issued, reviews, newsletters>>

SubmitReview(B) ==
    /\ pc = "idle"
    /\ \E data \in B, id \in Ids :
         LET r == submit_review(reviews, id, data, now)
         IN /\ IF r.status = 201 THEN id \in NewId(reviews) /\ Rows < MaxRows
               ELSE id = MaxId
            /\ reviews' = r.table
            /\ Serve("submit_review", NoHeader, 0, data, ReplyOf(r))
    /\ UNCHANGED <<issued, inquiries, newsletters>>

CreateNewsletter(B) ==
    /\ pc = "idle"
    /\ \E data \in B, id \in Ids :
         LET r == create_newsletter(newsletters, id, data, now)
         IN /\ IF r.status = 201 THEN id \in NewId(newsletters) /\ Rows < MaxRows
               ELSE id = MaxId
            /\ newsletters' = r.table
            /\ Serve("create_newsletter", NoHeader, 0, data, ReplyOf(r))
    /\ UNCHANGED <<issued, inquiries, reviews>>

GetInquiries(H) ==
    /\ pc = "idle"
    /\ \E h \in H :
         LET g == admin_required(h, now)
         IN IF g.status # 200 THEN Serve("get_inquiries", h, 0, EmptyBody, g)
            ELSE \E l \in Listings(inquiries) :
                   Serve("get_inquiries", h, 0, EmptyBody, [Reply(200, "OK") EXCEPT !.data = l])
    /\ UNCHANGED <<issued, tables>>

ExportInquiries(H) ==
    /\ pc = "idle"
    /\ \E h \in H :
         LET g == admin_required(h, now)
         IN IF g.status # 200 THEN Serve("export_inquiries", h, 0, EmptyBody, g)
            ELSE \E l \in Listings(inquiries) :
                   Serve("export_inquiries", h, 0, EmptyBody,
                         [Reply(200, "text/csv") EXCEPT
                            !.data = <<CsvHeader>> \o [i \in DOMAIN l |-> CsvRow(l[i])]])
    /\ UNCHANGED <<issued, tables>>

GetReviews ==
    /\ pc = "idle"
    /\ \E l \in Listings(reviews) :
         Serve("get_reviews", NoHeader, 0, EmptyBody, [Reply(200, "OK") EXCEPT !.data = l])
    /\ UNCHANGED <<issued, tables>>

GetNewsletters(H) ==
    /\ pc = "idle"
    /\ \E h \in H :
         LET g == admin_required(h, now)
         IN IF g.status # 200 THEN Serve("get_newsletters", h, 0, EmptyBody, g)
            ELSE \E l \in Listings(newsletters) :
                   Serve("get_newsletters", h, 0, EmptyBody, [Reply(200, "OK") EXCEPT !.data = l])
    /\ UNCHANGED <<issued, tables>>

DeleteInquiry(H) ==
    /\ pc = "idle"
    /\ \E h \in H, id \in Ids :
         LET g == admin_required(h, now)
             r == delete_inquiry(inquiries, id)
         IN IF g.status # 200
            THEN Serve("delete_inquiry", h, id, EmptyBody, g) /\ UNCHANGED inquiries
            ELSE Serve("delete_inquiry", h, id, EmptyBody, ReplyOf(r)) /\ inquiries' = r.table
    /\ UNCHANGED <<issued, reviews, newsletters>>

UpdateInquiry(H, B) ==
    /\ pc = "idle"
    /\ \E h \in H, id \in Ids, data \in B :
         LET g == admin_required(h, now)
             r == update_inquiry(inquiries, id, data)
         IN IF g.status # 200
            THEN Serve("update_inquiry", h, id, data, g) /\ UNCHANGED inquiries
            ELSE Serve("update_inquiry", h, id, data, ReplyOf(r)) /\ inquiries' = r.table
    /\ UNCHANGED <<issued, reviews, newsletters>>

DeleteNewsletter(H) ==
    /\ pc = "idle"
    /\ \E h \in H, id \in Ids :
         LET g == admin_required(h, now)
             r == delete_newsletter(newsletters, id)
         IN IF g.status # 200
            THEN Serve("delete_newsletter", h, id, EmptyBody, g) /\ UNCHANGED newsletters
            ELSE Serve("delete_newsletter", h, id, EmptyBody, ReplyOf(r))
                 /\ newsletters' = r.table
    /\ UNCHANGED <<issued, inquiries, reviews>>

UpdateNewsletter(H, B) ==
    /\ pc = "idle"
    /\ \E h \in H, id \in Ids, data \in B :
         LET g == admin_required(h, now)
             r == update_newsletter(newsletters, id, data)
         IN IF g.status # 200
            THEN Serve("update_newsletter", h, id, data, g) /\ UNCHANGED newsletters
            ELSE Serve("update_newsletter", h, id, data, ReplyOf(r))
                 /\ newsletters' = r.table
    /\ UNCHANGED <<issued, inquiries, reviews>>

DeleteReview(H) ==
    /\ pc = "idle"
    /\ \E h \in H, id \in Ids :
         LET g == admin_required(h, now)
             r == delete_review(reviews, id)
         IN IF g.status # 200
            THEN Serve("delete_review", h, id, EmptyBody, g) /\ UNCHANGED reviews
            ELSE Serve("delete_review", h, id, EmptyBody, ReplyOf(r)) /\ reviews' = r.table
    /\ UNCHANGED <<issued, inquiries, newsletters>>

UpdateReview(H, B) ==
    /\ pc = "idle"
    /\ \E h \in H, id \in Ids, data \in B :
         LET g == admin_required(h, now)
             r == update_review(reviews, id, data)
         IN IF g.status # 200
            THEN Serve("update_review", h, id, data, g) /\ UNCHANGED reviews
            ELSE Serve("update_review", h, id, data, ReplyOf(r)) /\ reviews' = r.table
    /\ UNCHANGED <<issued, inquiries, newsletters>>

(* --------------------------- specifications ---------------------------- *)

(* The whole service. *)
Next ==
    \/ Boot \/ Tick \/ Done \/ Index
    \/ Login(LoginBodies)
    \/ CreateInquiry(CreateInquiryBodies)
    \/ GetInquiries(GuardHeaders)
    \/ ExportInquiries(GuardHeaders)
    \/ SubmitReview(SubmitReviewBodies)
    \/ GetReviews
    \/ CreateNewsletter(CreateNewsletterBodies)
    \/ GetNewsletters(GuardHeaders)
    \/ DeleteInquiry(GuardHeaders)
    \/ UpdateInquiry(GuardHeaders, UpdateInquiryBodies)
    \/ DeleteNewsletter(GuardHeaders)
    \/ UpdateNewsletter(GuardHeaders, UpdateNewsletterBodies)
    \/ DeleteReview(GuardHeaders)
    \/ UpdateReview(GuardHeaders, UpdateReviewBodies)

Spec == Init /\ [][Next]_vars

(* Start-up, login, the clock and the guarded routes under every header. *)
NextAuth ==
    \/ Boot \/ Tick \/ Done
    \/ Login(LoginBodies)
    \/ GetInquiries(AuthHeaders)
    \/ ExportInquiries(AuthHeaders)
    \/ GetNewsletters(AuthHeaders)
    \/ DeleteInquiry(AuthHeaders)
    \/ UpdateInquiry(AuthHeaders, ProbeBodies)
    \/ DeleteNewsletter(AuthHeaders)
    \/ UpdateNewsletter(AuthHeaders, ProbeBodies)
    \/ DeleteReview(AuthHeaders)
    \/ UpdateReview(AuthHeaders, ProbeBodies)

SpecAuth == Init /\ [][NextAuth]_vars

Configured == Init /\ env = EnvVars

(* The guard in front of rows that exist. *)
NextGuard ==
    \/ Boot \/ Done
    \/ CreateInquiry(ProbeCreate)
    \/ SubmitReview(ProbeCreate)
    \/ CreateNewsletter(ProbeCreate)
    \/ GetInquiries(GuardHeaders)
    \/ ExportInquiries(GuardHeaders)
    \/ GetNewsletters(GuardHeaders)
    \/ DeleteInquiry(GuardHeaders)
    \/ UpdateInquiry(GuardHeaders, ProbeBodies)
    \/ DeleteNewsletter(GuardHeaders)
    \/ UpdateNewsletter(GuardHeaders, ProbeBodies)
    \/ DeleteReview(GuardHeaders)
    \/ UpdateReview(GuardHeaders, ProbeBodies)

SpecGuard == Configured /\ [][NextGuard]_vars

(* The writes to the three tables. *)
NextWrite ==
    \/ Boot \/ Done
    \/ CreateInquiry(CreateInquiryBodies)
    \/ SubmitReview(SubmitReviewFew)
    \/ CreateNewsletter(CreateNewsletterBodies)
    \/ DeleteInquiry(AdminHeader)
    \/ UpdateInquiry(AdminHeader, UpdateInquiryBodies)
    \/ DeleteNewsletter(AdminHeader)
    \/ UpdateNewsletter(AdminHeader, UpdateNewsletterBodies)
    \/ DeleteReview(AdminHeader)
    \/ UpdateReview(AdminHeader, UpdateReviewFew)

SpecWrite == Configured /\ [][NextWrite]_vars

(* The review routes under every rating, with and without the admin token. *)
NextReview ==
    \/ Boot \/ Done
    \/ CreateNewsletter(ProbeCreate)
    \/ SubmitReview(SubmitReviewBodies)
    \/ GetReviews
    \/ DeleteReview(WriteHeaders)
    \/ UpdateReview(WriteHeaders, UpdateReviewBodies)

SpecReview == Configured /\ [][NextReview]_vars

(* ------------------------------- claims -------------------------------- *)

GuardedRoutes ==
    {"get_inquiries", "export_inquiries", "get_newsletters",
     "delete_inquiry", "update_inquiry", "delete_newsletter", "update_newsletter",
     "delete_review", "update_review"}

UpdateRoutes == {"update_inquiry", "update_newsletter", "update_review"}

DeleteRoutes == {"delete_inquiry", "delete_newsletter", "delete_review"}

Handled == pc = "idle" /\ pc' = "responded"

BearerScheme(h) == h.scheme \in {"Bearer", "bearer", "BEARER"}

Signed(token) == token.kind = "jwt" /\ token.key = SECRET_KEY

Unexpired(token, t) == t < token.exp * TicksPerSecond

(* The header carries a token signed with the server secret, not expired   *)
(* at time t, with admin = true.                                           *)
CarriesAdminToken(h, t) ==
    /\ h.present
    /\ h.nparts = 2
    /\ Signed(h.token)
    /\ Unexpired(h.token, t)
    /\ h.token.admin = "true"

RowTouched(db, db2) == \E i \in DOMAIN db : i \notin DOMAIN db2 \/ db2[i] # db[i]

(* C1: on a guarded route the handler runs only for a request whose header *)
(* carries a correctly signed, unexpired token with admin = true; any      *)
(* other request is rejected (401 or 403) with the tables untouched, and   *)
(* an existing row is changed or removed only by such a request to an      *)
(* update or delete route.                                                 *)
C1_GuardBeforeHandler ==
    [][/\ (Handled /\ req'.route \in GuardedRoutes
             /\ ~CarriesAdminToken(req'.header, req'.time))
          => (resp'.status \in {401, 403} /\ tables' = tables)
       /\ (RowTouched(inquiries, inquiries') \/ RowTouched(reviews, reviews')
             \/ RowTouched(newsletters, newsletters'))
          => (/\ Handled
              /\ req'.route \in UpdateRoutes \cup DeleteRoutes
              /\ CarriesAdminToken(req'.header, req'.time))]_vars

C1_Witness ==
    /\ pc = "responded"
    /\ req.route = "delete_review"
    /\ resp.status = 200
    /\ req.id \notin DOMAIN reviews
    /\ CarriesAdminToken(req.header, req.time)
    /\ Rows > 0

(* C2: every stored review has a rating in {1,...,5}, whatever creates and *)
(* updates were served or rejected.                                        *)
C2_RatingInRange ==
    \A id \in DOMAIN reviews : reviews[id].rating \in MinRating..MaxRating

C2_Witness ==
    /\ pc = "responded"
    /\ req.route = "update_review"
    /\ req.id \in DOMAIN reviews
    /\ "rating" \in DOMAIN req.body
    /\ req.body["rating"] = MaxRating
    /\ reviews[req.id].rating = MaxRating
    /\ resp.status = 200

TableOf(route) ==
    IF route \in {"update_inquiry", "delete_inquiry"} THEN inquiries
    ELSE IF route \in {"update_review", "delete_review"} THEN reviews
    ELSE newsletters

AdminRequest(r) == BearerScheme(r.header) /\ CarriesAdminToken(r.header, r.time)

(* C3: an update (with a non-empty body) or a delete of an id that has no  *)
(* row, sent with a valid admin token, is answered 404 and leaves the      *)
(* tables as they were.                                                    *)
C3_UnknownIdIs404 ==
    [][(/\ Handled
        /\ req'.route \in UpdateRoutes \cup DeleteRoutes
        /\ AdminRequest(req')
        /\ req'.route \in UpdateRoutes => req'.body # EmptyBody
        /\ req'.id \notin DOMAIN TableOf(req'.route))
       => (resp'.status = 404 /\ tables' = tables)]_vars

(* C4: a review write with a rating outside [1,5] is answered 400: a       *)
(* create with the four required fields, and an update of an existing row  *)
(* sent with a valid admin token.                                          *)
C4_BadRatingIs400 ==
    [][/\ (/\ Handled
           /\ req'.route = "submit_review"
           /\ ReviewRequired \subseteq DOMAIN req'.body
           /\ ~InRange(req'.body["rating"]))
          => resp'.status = 400
       /\ (/\ Handled
           /\ req'.route = "update_review"
           /\ AdminRequest(req')
           /\ req'.id \in DOMAIN reviews
           /\ "rating" \in DOMAIN req'.body
           /\ ~InRange(req'.body["rating"]))
          => resp'.status = 400]_vars

(* C5: an update of an existing review whose body has a rating outside     *)
(* [1,5] next to name, company or review leaves every row, that of the     *)
(* target included, exactly as it was.                                     *)
C5_RejectedUpdateChangesNothing ==
    [][(/\ Handled
        /\ req'.route = "update_review"
        /\ req'.id \in DOMAIN reviews
        /\ "rating" \in DOMAIN req'.body
        /\ ~InRange(req'.body["rating"])
        /\ DOMAIN req'.body \cap {"name", "company", "review"} # {})
       => (reviews' = reviews /\ tables' = tables)]_vars

C5_Witness ==
    /\ pc = "responded"
    /\ req.route = "update_review"
    /\ AdminRequest(req)
    /\ req.id \in DOMAIN reviews
    /\ {"name", "rating"} \subseteq DOMAIN req.body
    /\ ~InRange(req.body["rating"])
    /\ reviews[req.id].name # req.body["name"]
    /\ resp.status = 500

(* C6: the guard reports the first failing check in the order missing      *)
(* header, malformed header, signature / expiry, privilege: 401 with its   *)
(* own message for a missing header, a malformed header, an invalid token  *)
(* and an expired token, 403 for a signed unexpired token without          *)
(* admin = true.                                                           *)
C6_GuardOrder ==
    (pc = "responded" /\ req.route \in GuardedRoutes) =>
      LET h == req.header
          wellFormed == h.present /\ h.nparts = 2 /\ BearerScheme(h)
      IN /\ ~h.present => resp = Reply(401, "Authorization header is missing")
         /\ (h.present /\ h.nparts # 2)
              => resp = Reply(401, "Invalid authorization header format")
         /\ (h.present /\ h.nparts = 2 /\ ~BearerScheme(h))
              => resp = Reply(401, "Invalid authorization scheme")
         /\ (wellFormed /\ ~Signed(h.token)) => resp = Reply(401, "Invalid token")
         /\ (wellFormed /\ Signed(h.token) /\ ~Unexpired(h.token, req.time))
              => resp = Reply(401, "Token has expired")
         /\ (wellFormed /\ Signed(h.token) /\ Unexpired(h.token, req.time)
               /\ h.token.admin # "true")
              => resp = Reply(403, "Admin privileges required")
         /\ (wellFormed /\ CarriesAdminToken(h, req.time)) => resp.status \notin {401, 403}

C6_Witness ==
    /\ pc = "responded"
    /\ req.route \in GuardedRoutes
    /\ req.time > 0
    /\ req.header = Header("Bearer", Token(SECRET_KEY, "false", 1))
    /\ resp = Reply(401, "Token has expired")

(* A guarded request that presents, as a bearer token, the token that the  *)
(* login i returned.                                                       *)
Presents(i) ==
    /\ pc = "responded"
    /\ req.route \in GuardedRoutes
    /\ req.header.present
    /\ req.header.nparts = 2
    /\ BearerScheme(req.header)
    /\ req.header.token = i.token

Lifetime == TokenLifetime * TicksPerSecond

WholeSecond(t) == (t \div TicksPerSecond) * TicksPerSecond

(* C7 as stated: the token of a login at time t passes the guard at any    *)
(* time before t + lifetime and is rejected as expired at any time after.  *)
C7_LifetimeFromLogin ==
    \A i \in issued :
      Presents(i) =>
        /\ req.time < i.t + Lifetime => resp.status \notin {401, 403}
        /\ req.time > i.t + Lifetime => resp = Reply(401, "Token has expired")

(* C7, amended: the token of a login at time t passes the guard at any     *)
(* time before s + lifetime, where s is t cut to the whole second, and is  *)
(* rejected as expired (never as invalid) from s + lifetime on.            *)
C7_LifetimeFromWholeSecond ==
    \A i \in issued :
      Presents(i) =>
        /\ req.time < WholeSecond(i.t) + Lifetime => resp.status \notin {401, 403}
        /\ req.time >= WholeSecond(i.t) + Lifetime => resp = Reply(401, "Token has expired")

C7_Witness ==
    \E i \in issued :
      /\ Presents(i)
      /\ i.t # WholeSecond(i.t)
      /\ req.time = WholeSecond(i.t) + Lifetime
      /\ req.time < i.t + Lifetime
      /\ resp = Reply(401, "Token has expired")

(* C8: the process serves requests only when all four settings are         *)
(* configured, so no login is served while the admin username is unset.    *)
C8_AllFourRequired ==
    /\ pc \in {"idle", "responded"} => EnvVars \subseteq env
    /\ (pc = "responded" /\ req.route = "login") => "ADMIN_USERNAME" \in env

InquiryColumns == {"name", "email"} \cup InquiryOptional

ReviewColumns == ReviewRequired

NewsletterColumns == {"name", "email"}

(* db2 is db plus one row, under an id db did not have, that carries the   *)
(* submitted values of the recognized fields.                              *)
OneNewRow(db, db2, columns, body) ==
    \E id \in DOMAIN db2 \ DOMAIN db :
      /\ DOMAIN db2 = DOMAIN db \cup {id}
      /\ \A i \in DOMAIN db : db2[i] = db[i]
      /\ db2[id].id = id
      /\ \A k \in columns \cap DOMAIN body : db2[id][k] = body[k]

OnlySentColumns(db, db2, id, columns, body) ==
    /\ id \in DOMAIN db
    /\ DOMAIN db2 = DOMAIN db
    /\ \A i \in DOMAIN db \ {id} : db2[i] = db[i]
    /\ \A k \in columns :
         db2[id][k] = IF k \in DOMAIN body THEN body[k] ELSE db[id][k]
    /\ db2[id].id = db[id].id
    /\ db2[id].timestamp = db[id].timestamp

(* C10: a successful update sets exactly the mutable fields whose keys are *)
(* in the body; absent keys keep their values, unknown keys, "id" and      *)
(* "timestamp" are ignored, and no other row changes.                      *)
C10_UpdateFrame ==
    [][(Handled /\ resp'.status = 200) =>
        /\ req'.route = "update_inquiry"
             => /\ OnlySentColumns(inquiries, inquiries', req'.id, InquiryColumns, req'.body)
                /\ UNCHANGED <<reviews, newsletters>>
        /\ req'.route = "update_review"
             => /\ OnlySentColumns(reviews, reviews', req'.id, ReviewColumns, req'.body)
                /\ UNCHANGED <<inquiries, newsletters>>
        /\ req'.route = "update_newsletter"
             => /\ OnlySentColumns(newsletters, newsletters', req'.id, NewsletterColumns,
                                   req'.body)
                /\ UNCHANGED <<inquiries, reviews>>]_vars

C10_Witness ==
    /\ pc = "responded"
    /\ req.route = "update_inquiry"
    /\ resp.status = 200
    /\ Unsettable \subseteq DOMAIN req.body
    /\ Cardinality(DOMAIN inquiries) = 2
    /\ inquiries[req.id].email = req.body["email"]
    /\ inquiries[req.id].timestamp # req.body["timestamp"]

====
